---- MODULE Spec2Model ----
(***************************************************************************)
(* A model of sftp-deploy (src/deploy.mjs): one deploy process per run,     *)
(* runs following one another on the same local tree, the same cache file   *)
(* and the same remote server.  Every callback of the script is one         *)
(* action; the remote server answers each request with success or failure.  *)
(***************************************************************************)
EXTENDS Integers, Sequences, FiniteSets, TLC

(***************************************************************************)
(* Bounds of the model.                                                     *)
(***************************************************************************)
\* number of consecutive runs of the script
MaxRuns == 2
\* number of remote requests one run may see fail for a reason that is not
\* the state of the remote tree (permission, I/O, transient error)
MaxFaults == 2

(***************************************************************************)
(* The local side: the build folder "dist" (config.localPath) and one extra *)
(* folder "s" given as a bare string in config.extraFolders.                *)
(***************************************************************************)
extraFolders == << <<"s">> >>

\* CACHE_FILE, lines 39-40, in CONFIG_DIR = process.cwd()
CACHE_FILE == <<".sftp-deploy-cache.json">>

\* every local file the model knows, as a path from process.cwd(), in the
\* order readdirSync reports them
LocalUniverse ==
    << CACHE_FILE, <<"dist", "a">>, <<"dist", "a.m">>, <<"dist", "s", "b">>,
       <<"s", "b">> >>
LocalFiles == {LocalUniverse[k] : k \in 1..Len(LocalUniverse)} \ {CACHE_FILE}

\* file contents; NoFile stands for "no such file"
NoFile == "absent"
Contents == {"c1", "c2"}

\* the local trees a run may find: any subset of the three files, the copy
\* in the extra folder differing in content from the one in the build folder
LocalTree(present) ==
    [p \in LocalFiles |->
        IF p \notin present THEN NoFile
        ELSE IF p = <<"s", "b">> THEN "c2" ELSE "c1"]
LocalTrees == {LocalTree(s) : s \in SUBSET (LocalFiles \ {<<"dist", "a.m">>})}
\* the same with a source map beside dist/a
MappedTrees == {LocalTree(s) : s \in SUBSET LocalFiles}

\* how the names of the local entries are spelled
Spelling ==
    "dist" :> <<"d", "i", "s", "t">> @@ "a" :> <<"a">> @@
    "a.m" :> <<"a", ".", "m">> @@ "s" :> <<"s">> @@ "b" :> <<"b">> @@
    ".sftp-deploy-cache.json" :>
        <<".", "s", "f", "t", "p", "-", "d", "e", "p", "l", "o", "y", "-",
          "c", "a", "c", "h", "e", ".", "j", "s", "o", "n">>

\* config.exclude: the pattern lists a project may configure, each pattern
\* spelled out
ExcludeLists ==
    { <<>>,
      << <<"*", ".", "m">> >>,
      << <<"a">> >>,
      << <<"b">> >>,
      << <<"s">> >>,
      << <<"s", "/">> >>,
      << <<"*", ".", "m">>, <<"s", "/">> >> }

\* what loadConfig and main make of the configuration files
ConfigStatuses ==
    {"ok", "invalidJson", "missingCredentials", "invalidExtraFolders"}

(***************************************************************************)
(* The remote side: config.remotePath is /www.                              *)
(***************************************************************************)
remotePath == <<"www">>

RemoteUniverse ==
    << <<"www">>, <<"www", "a">>, <<"www", "old">>, <<"www", "s">>,
       <<"www", "s", "b">> >>
RPaths == {RemoteUniverse[k] : k \in 1..Len(RemoteUniverse)}

\* content of a remote file that this tool did not upload
Foreign == "foreign"

None == [kind |-> "none", data |-> ""]
Dir == [kind |-> "dir", data |-> ""]
File(c) == [kind |-> "file", data |-> c]

RemoteTree(files, dirs) ==
    [p \in RPaths |->
        IF p \in files THEN File(Foreign)
        ELSE IF p \in dirs THEN Dir ELSE None]

\* the remote trees the first run may find
RemoteTrees ==
    { RemoteTree({}, {}),
      RemoteTree({}, {<<"www">>}),
      RemoteTree({<<"www", "a">>}, {<<"www">>}),
      RemoteTree({<<"www", "s", "b">>}, {<<"www">>, <<"www", "s">>}),
      RemoteTree({<<"www", "a">>, <<"www", "old">>, <<"www", "s", "b">>},
                 {<<"www">>, <<"www", "s">>}) }

(***************************************************************************)
(* State.                                                                   *)
(***************************************************************************)
VARIABLES
    \* persistent across runs
    localFs,        \* local file -> content
    distExists,     \* the build folder "dist" exists
    config,         \* [localPath, exclude, status]: loadConfig's result
    cacheFile,      \* CACHE_FILE: [kind, map], kind "absent", "json" (an
                    \* object), "null", "scalar" (any other JSON value) or
                    \* "garbage" (not JSON)
    remote,         \* remote path -> node
    \* the running process
    runNo,          \* runs started so far
    argv,           \* process.argv.slice(2), the words of the command line
    mode,           \* [force, incr, clean]: FORCE_MODE, INCREMENTAL_MODE, CLEAN_MODE
    pc,             \* where the process is
    files,          \* main's `files`, the planned list
    newHashes,      \* main's `newHashes`: [set, map]
    existing,       \* checkExistingFiles' `existing`
    checked,        \* checkExistingFiles' `checked`
    pendingStat,    \* indices of files whose sftp.stat has not answered yet
    stack,          \* cleanRemoteDirectory's frames: [path, list, k]
    op,             \* the outstanding sequential remote request, or NoOp
    idx,            \* uploadFile's i (1-based)
    uploaded,       \* upload's `uploaded`
    failed,         \* upload's `failed`
    exitCode,       \* -1 while running, else the process exit code
    faults,         \* injected failures in this run
    \* history of the run
    prompts,        \* prompt kind -> "none" | "yes" | "no"
    opLog,          \* every remote request issued, in order
    results,        \* outcome of every completed transfer, in order
    saved,          \* saveDeployCache was called in this run
    cacheAtStart,   \* cacheFile when the run started
    untouched,      \* remote objects present at run start, not yet deleted or overwritten
    overwritten,    \* remote objects present at run start that a transfer replaced
    listings,       \* outcome of every sftp.readdir answered, in order
    prevSaved,      \* the previous run committed the cache
    edits           \* local files edited: [pending] since the last run began,
                    \* [before] the run began, after the one before it

persistent == <<localFs, distExists, config, cacheFile, remote>>
process == <<runNo, argv, mode, pc, files, newHashes, existing, checked, pendingStat,
             stack, op, idx, uploaded, failed, exitCode, faults>>
history == <<prompts, opLog, results, saved, cacheAtStart, untouched,
             overwritten, listings, prevSaved, edits>>
vars == <<persistent, process, history>>

\* main, line 426: path.resolve(config.localPath || './dist')
localPath == config.localPath

EmptyMap == [x \in {} |-> ""]
NoOp == [kind |-> "none", path |-> <<>>, file |-> 0]
NoPrompts == [k \in {"connect", "clean", "overwrite"} |-> "none"]

(***************************************************************************)
(* Path helpers (path.posix.join, path.posix.dirname).                      *)
(***************************************************************************)
posixJoin(a, b) == a \o b
posixDirname(p) == SubSeq(p, 1, Len(p) - 1)
IsPrefix(d, p) == Len(d) < Len(p) /\ SubSeq(p, 1, Len(d)) = d

(***************************************************************************)
(* FileCollector.                                                           *)
(***************************************************************************)
\* String.prototype.startsWith, endsWith, slice and includes, on spellings
startsWith(str, prefix) ==
    Len(prefix) <= Len(str) /\ SubSeq(str, 1, Len(prefix)) = prefix
endsWith(str, suffix) ==
    Len(suffix) <= Len(str)
        /\ SubSeq(str, Len(str) - Len(suffix) + 1, Len(str)) = suffix
slice(str, n) == SubSeq(str, n + 1, Len(str))
includes(str, sub) ==
    \E i \in 0..(Len(str) - Len(sub)) : SubSeq(str, i + 1, i + Len(sub)) = sub

\* the string of a path: its names joined by the separator
RECURSIVE pathString(_)
pathString(p) ==
    IF Len(p) = 0 THEN <<>>
    ELSE IF Len(p) = 1 THEN Spelling[p[1]]
    ELSE pathString(SubSeq(p, 1, Len(p) - 1)) \o <<"/">> \o Spelling[p[Len(p)]]

\* collectFiles, lines 220-223: exclude.some(pattern => ...)
excluded(exclude, name, relativePath) ==
    \E n \in 1..Len(exclude) :
        LET pattern == exclude[n]
        IN IF startsWith(pattern, <<"*", ".">>)
           THEN endsWith(Spelling[name], slice(pattern, 1))
           ELSE \/ Spelling[name] = pattern
                \/ includes(pathString(relativePath), pattern)

existsSync(p) ==
    IF p = CACHE_FILE THEN cacheFile.kind # "absent" ELSE localFs[p] # NoFile

\* the entries between dir and the file p, p included, that collectFiles
\* meets on its way down to p: none of them is excluded
Kept(dir, baseDir, exclude, p) ==
    \A n \in (Len(dir) + 1)..Len(p) :
        ~excluded(exclude, p[n], SubSeq(p, Len(baseDir) + 1, n))

RECURSIVE collectFrom(_, _, _, _)
collectFrom(dir, baseDir, exclude, k) ==
    IF k > Len(LocalUniverse) THEN <<>>
    ELSE LET p == LocalUniverse[k]
             rest == collectFrom(dir, baseDir, exclude, k + 1)
         IN IF /\ IsPrefix(dir, p) /\ existsSync(p)
               /\ Kept(dir, baseDir, exclude, p)
            THEN <<[local |-> p,
                    relative |-> SubSeq(p, Len(baseDir) + 1, Len(p))]>> \o rest
            ELSE rest

collectFiles(dir, baseDir, exclude) == collectFrom(dir, baseDir, exclude, 1)

\* main, lines 437-472: a bare string item uploads under the folder's own name
RECURSIVE addExtraFolders(_, _)
addExtraFolders(acc, k) ==
    IF k > Len(extraFolders) THEN acc
    ELSE LET localFolder == extraFolders[k]
             remoteBase == <<localFolder[Len(localFolder)]>>
             extraFiles == collectFiles(localFolder, localFolder, config.exclude)
             mapped == [n \in 1..Len(extraFiles) |->
                          [local |-> extraFiles[n].local,
                           relative |-> posixJoin(remoteBase, extraFiles[n].relative)]]
         IN addExtraFolders(acc \o mapped, k + 1)

collectAll ==
    addExtraFolders(collectFiles(localPath, localPath, config.exclude), 1)

(***************************************************************************)
(* CacheStore and ChangeDetector.                                           *)
(***************************************************************************)
\* SHA-256 in hex: distinct contents have distinct digests
Digest == "c1" :> "h1" @@ "c2" :> "h2"
computeFileHash(p) == Digest[localFs[p]]

\* loadDeployCache, lines 81-88: {} without a file or when JSON.parse throws,
\* else whatever value JSON.parse returns
loadDeployCache ==
    IF cacheFile.kind \in {"absent", "garbage"}
    THEN [kind |-> "json", map |-> EmptyMap]
    ELSE cacheFile

MapSet(m, key, v) ==
    [x \in DOMAIN m \cup {key} |-> IF x = key THEN v ELSE m[x]]

\* cache[file.relative] !== hash: a property that is not there, and every
\* property of a value that is not an object, is undefined
differs(cache, relative, hash) ==
    \/ cache.kind # "json"
    \/ relative \notin DOMAIN cache.map
    \/ cache.map[relative] # hash

RECURSIVE filterLoop(_, _, _, _)
filterLoop(fs, cache, k, acc) ==
    IF k > Len(fs) THEN acc
    ELSE LET file == fs[k]
             hash == computeFileHash(file.local)
             isChanged == differs(cache, file.relative, hash)
         IN filterLoop(fs, cache, k + 1,
                [changed |-> IF isChanged THEN Append(acc.changed, file)
                             ELSE acc.changed,
                 unchanged |-> IF isChanged THEN acc.unchanged
                               ELSE acc.unchanged + 1,
                 newHashes |-> MapSet(acc.newHashes, file.relative, hash),
                 threw |-> FALSE])

\* filterChangedFiles; threw: reading a property of null is a TypeError, at
\* the first file
filterChangedFiles(fs, cache) ==
    IF cache.kind = "null" /\ Len(fs) > 0
    THEN [changed |-> <<>>, unchanged |-> 0, newHashes |-> EmptyMap,
          threw |-> TRUE]
    ELSE filterLoop(fs, cache, 1,
                    [changed |-> <<>>, unchanged |-> 0, newHashes |-> EmptyMap,
                     threw |-> FALSE])

(***************************************************************************)
(* The remote session (ssh2's SFTP wrapper), as the script uses it.  Every  *)
(* request may also fail by a fault, whatever the state of the tree.        *)
(***************************************************************************)
Present(p) == remote[p].kind # "none"
ParentOk(p) == Len(p) = 1 \/ remote[posixDirname(p)].kind = "dir"
Children(d) == {p \in RPaths : posixDirname(p) = d /\ Present(p)}

\* sftp.readdir's list: the entries of d, with attrs.isDirectory()
RECURSIVE listFrom(_, _)
listFrom(d, k) ==
    IF k > Len(RemoteUniverse) THEN <<>>
    ELSE LET p == RemoteUniverse[k]
         IN IF p \in Children(d)
            THEN <<[path |-> p, isDirectory |-> remote[p].kind = "dir"]>>
                     \o listFrom(d, k + 1)
            ELSE listFrom(d, k + 1)
readdirList(d) == listFrom(d, 1)

\* sftp.stat answers without error
statOk(p, fault) == ~fault /\ Present(p)
\* sftp.mkdir creates the directory
mkdirOk(p, fault) == ~fault /\ ~Present(p) /\ ParentOk(p)
\* sftp.fastPut writes the file
fastPutOk(p, fault) == ~fault /\ ParentOk(p) /\ remote[p].kind # "dir"
\* sftp.unlink removes the file
unlinkOk(p, fault) == ~fault /\ remote[p].kind = "file"
\* sftp.rmdir removes the directory
rmdirOk(p, fault) == ~fault /\ remote[p].kind = "dir" /\ Children(p) = {}

\* a fault may be injected while the run's budget lasts
Faults == {f \in BOOLEAN : f => faults < MaxFaults}
Charge(fault) == faults' = IF fault THEN faults + 1 ELSE faults

Request(kind, path, file) == [kind |-> kind, path |-> path, file |-> file]

(***************************************************************************)
(* confirm(): the answers an operator may type.                             *)
(***************************************************************************)
Answers == {"y", "YES", "si", "n", ""}
toLowerCase(a) == IF a = "YES" THEN "yes" ELSE a
confirm(answer) == toLowerCase(answer) \in {"y", "yes", "s", "si"}
Reply(answer) == IF confirm(answer) THEN "yes" ELSE "no"

(***************************************************************************)
(* Initial state: no run yet, no cache file.                                *)
(***************************************************************************)
NoRunYet ==
    /\ runNo = 0
    /\ argv = {}
    /\ mode = [force |-> FALSE, incr |-> FALSE, clean |-> FALSE]
    /\ pc = "idle"
    /\ files = <<>>
    /\ newHashes = [set |-> FALSE, map |-> EmptyMap]
    /\ existing = <<>>
    /\ checked = 0
    /\ pendingStat = {}
    /\ stack = <<>>
    /\ op = NoOp
    /\ idx = 0
    /\ uploaded = 0
    /\ failed = 0
    /\ exitCode = -1
    /\ faults = 0
    /\ prompts = NoPrompts
    /\ opLog = <<>>
    /\ results = <<>>
    /\ saved = FALSE
    /\ cacheAtStart = cacheFile
    /\ untouched = {}
    /\ overwritten = {}
    /\ listings = <<>>
    /\ prevSaved = FALSE
    /\ edits = [pending |-> {}, before |-> {}]

Init ==
    /\ distExists \in BOOLEAN
    /\ localFs \in LocalTrees
    /\ ~distExists =>
           \A p \in LocalFiles : IsPrefix(<<"dist">>, p) => localFs[p] = NoFile
    /\ config \in [localPath : {<<"dist">>}, exclude : {<<>>},
                    status : ConfigStatuses]
    /\ cacheFile = [kind |-> "absent", map |-> EmptyMap]
    /\ remote \in RemoteTrees
    /\ NoRunYet

(***************************************************************************)
(* process.exit(code)                                                       *)
(***************************************************************************)
Exit(code) == pc' = "exited" /\ exitCode' = code

Stopped == {"idle", "exited", "unhandled"}

\* the mutant of mainCatch that reports success
mainCatch_ExitZero == Exit(0)

\* main, lines 520-523: upload() rejected, 'Deploy failed', exit code 1
mainCatch == Exit(1)

\* loadConfig, lines 151-178: sftp.config.json parses, no credential missing
configOk == config.status \notin {"invalidJson", "missingCredentials"}
\* main, line 428: fs.existsSync(localPath); the working directory is there
localPathExists == Len(localPath) = 0 \/ distExists
\* main, lines 442-454: every item is a string or an object with `from`
extraFoldersOk == config.status # "invalidExtraFolders"

\* the mutant of nothingToUpload that always goes on to connect
nothingToUpload_Never(incr, planned) == FALSE

\* main, lines 477 and 488: INCREMENTAL_MODE and files.length === 0
nothingToUpload(incr, planned) == incr /\ Len(planned) = 0

(***************************************************************************)
(* main(), from the start of the process to its first await: configuration, *)
(* collection, change detection, the connect prompt or conn.connect.        *)
(***************************************************************************)
main(force, incr, clean) ==
    /\ pc \in Stopped
    /\ runNo < MaxRuns
    /\ runNo' = runNo + 1
    /\ mode' = [force |-> force, incr |-> incr, clean |-> clean]
    /\ existing' = <<>> /\ checked' = 0 /\ pendingStat' = {} /\ stack' = <<>>
    /\ op' = NoOp /\ idx' = 0 /\ uploaded' = 0 /\ failed' = 0 /\ faults' = 0
    /\ opLog' = <<>> /\ results' = <<>> /\ saved' = FALSE
    /\ cacheAtStart' = cacheFile
    /\ untouched' = {p \in RPaths : Present(p)}
    /\ overwritten' = {}
    /\ listings' = <<>>
    /\ prevSaved' = saved
    /\ edits' = [pending |-> {}, before |-> edits.pending]
    /\ UNCHANGED persistent
    /\ IF ~configOk \/ ~localPathExists \/ ~extraFoldersOk
       THEN /\ files' = <<>>
            /\ newHashes' = [set |-> FALSE, map |-> EmptyMap]
            /\ prompts' = NoPrompts
            /\ Exit(1)
       ELSE LET all == collectAll
                result == filterChangedFiles(all, loadDeployCache)
                planned == IF incr THEN result.changed ELSE all
            IN IF incr /\ result.threw
               THEN \* the TypeError leaves main(), whose promise nobody handles
                    /\ files' = all
                    /\ newHashes' = [set |-> FALSE, map |-> EmptyMap]
                    /\ prompts' = NoPrompts
                    /\ pc' = "unhandled" /\ exitCode' = -1
               ELSE
               /\ files' = planned
               /\ newHashes' = IF incr THEN [set |-> TRUE, map |-> result.newHashes]
                               ELSE [set |-> FALSE, map |-> EmptyMap]
               /\ IF nothingToUpload(incr, planned)
                  THEN prompts' = NoPrompts /\ Exit(0)
                  ELSE IF ~force
                  THEN /\ prompts' = [NoPrompts EXCEPT !.connect = "asked"]
                       /\ pc' = "askConnect" /\ exitCode' = -1
                  ELSE /\ prompts' = NoPrompts
                       /\ pc' = "connecting" /\ exitCode' = -1

(***************************************************************************)
(* Continuations of upload()'s callback chain.  Each states the next value  *)
(* of pc, op, idx and opLog (afterDiscover also of prompts); log is the     *)
(* request log so far.                                                      *)
(***************************************************************************)
Issue(req, log) == op' = req /\ opLog' = Append(log, req)

\* uploadFile(i): the end of the list, or mkdirSftp's first step
uploadFile(i, log) ==
    /\ idx' = i
    /\ IF i > Len(files)
       THEN pc' = "resolved" /\ op' = NoOp /\ opLog' = log
       ELSE LET target == posixJoin(remotePath, files[i].relative)
                dir == posixDirname(target)
            IN /\ pc' = "upload"
               /\ IF Len(dir) = 0
                  THEN Issue(Request("put", target, i), log)
                  ELSE Issue(Request("mkdir", SubSeq(dir, 1, 1), i), log)

\* the mutant of afterDiscover that asks even when nothing was found
afterDiscover_AlwaysAsk(found, log) ==
    IF ~mode.force
    THEN /\ prompts' = [prompts EXCEPT !.overwrite = "asked"]
         /\ pc' = "askOverwrite" /\ op' = NoOp /\ idx' = 0 /\ opLog' = log
    ELSE /\ prompts' = prompts
         /\ uploadFile(1, log)

\* the mutant of afterDiscover that asks in unattended mode too
afterDiscover_IgnoreForce(found, log) ==
    IF Len(found) > 0
    THEN /\ prompts' = [prompts EXCEPT !.overwrite = "asked"]
         /\ pc' = "askOverwrite" /\ op' = NoOp /\ idx' = 0 /\ opLog' = log
    ELSE /\ prompts' = prompts
         /\ uploadFile(1, log)

\* upload(), lines 354-404: the overwrite prompt, or the first uploadFile
afterDiscover(found, log) ==
    IF Len(found) > 0 /\ ~mode.force
    THEN /\ prompts' = [prompts EXCEPT !.overwrite = "asked"]
         /\ pc' = "askOverwrite" /\ op' = NoOp /\ idx' = 0 /\ opLog' = log
    ELSE /\ prompts' = prompts
         /\ uploadFile(1, log)

\* checkExistingFiles(): every sftp.stat is issued by the one for loop
checkExistingFiles(log) ==
    /\ existing' = <<>>
    /\ checked' = 0
    /\ IF Len(files) = 0
       THEN pendingStat' = {} /\ afterDiscover(<<>>, log)
       ELSE /\ pendingStat' = 1..Len(files)
            /\ pc' = "discover" /\ op' = NoOp /\ idx' = 0
            /\ prompts' = prompts
            /\ opLog' = log \o [k \in 1..Len(files) |->
                   Request("stat", posixJoin(remotePath, files[k].relative), k)]

\* the mutant of discoverExisting that checks after a clean too
discoverExisting_AlwaysCheck(log) == checkExistingFiles(log)

\* upload(), lines 348-352: existing = CLEAN_MODE ? [] : await checkExistingFiles
discoverExisting(log) ==
    IF mode.clean
    THEN /\ existing' = <<>> /\ checked' = checked /\ pendingStat' = pendingStat
         /\ afterDiscover(<<>>, log)
    ELSE checkExistingFiles(log)

\* a cleanRemoteDirectory promise resolved; waiting are the frames that
\* awaited it: the parent issues sftp.rmdir, or upload() goes on after line 344
levelResolved(waiting, log) ==
    /\ stack' = waiting
    /\ IF Len(waiting) = 0
       THEN discoverExisting(log)
       ELSE LET parent == waiting[Len(waiting)]
            IN /\ pc' = "clean" /\ idx' = 0 /\ prompts' = prompts
               /\ UNCHANGED <<existing, checked, pendingStat>>
               /\ Issue(Request("rmdir", parent.list[parent.k].path, 0), log)

\* the mutant of cleanLoop that removes a directory without descending
cleanLoop_NoDescent(frames, log) ==
    LET top == frames[Len(frames)]
    IN IF top.k > Len(top.list)
       THEN levelResolved(SubSeq(frames, 1, Len(frames) - 1), log)
       ELSE /\ stack' = frames
            /\ pc' = "clean" /\ idx' = 0 /\ prompts' = prompts
            /\ UNCHANGED <<existing, checked, pendingStat>>
            /\ IF top.list[top.k].isDirectory
               THEN Issue(Request("rmdir", top.list[top.k].path, 0), log)
               ELSE Issue(Request("unlink", top.list[top.k].path, 0), log)

\* the for loop of cleanRemoteDirectory's readdir callback, at the top frame
cleanLoop(frames, log) ==
    LET top == frames[Len(frames)]
    IN IF top.k > Len(top.list)
       THEN levelResolved(SubSeq(frames, 1, Len(frames) - 1), log)
       ELSE /\ stack' = frames
            /\ pc' = "clean" /\ idx' = 0 /\ prompts' = prompts
            /\ UNCHANGED <<existing, checked, pendingStat>>
            /\ IF top.list[top.k].isDirectory
               THEN Issue(Request("readdir", top.list[top.k].path, 0), log)
               ELSE Issue(Request("unlink", top.list[top.k].path, 0), log)

\* cleanRemoteDirectory(sftp, config.remotePath), line 344
cleanRemoteDirectory(log) ==
    /\ stack' = <<>>
    /\ pc' = "clean" /\ idx' = 0
    /\ Issue(Request("readdir", remotePath, 0), log)

NextItem(frames) ==
    [frames EXCEPT ![Len(frames)].k = frames[Len(frames)].k + 1]

\* lines 62-65: the flags, each args.includes(word); the order and the
\* repetitions of the words do not matter, so args is the set of the words
FORCE_MODE(args) == "--unattended" \in args
INCREMENTAL_MODE(args) == "--incremental" \in args \/ "-i" \in args
CLEAN_MODE(args) == "--clean" \in args

\* `node deploy.mjs <args>`: the module reads its flags and calls main()
Run(args) ==
    /\ main(FORCE_MODE(args), INCREMENTAL_MODE(args), CLEAN_MODE(args))
    /\ argv' = args

\* the command lines of a run: every combination of the three modes
Commands == SUBSET {"--unattended", "--incremental", "--clean"}

(***************************************************************************)
(* The callbacks.                                                           *)
(***************************************************************************)
fixedInRun == <<localFs, distExists, config, runNo, argv, mode, files,
                newHashes, cacheAtStart, prevSaved, edits>>
tallies == <<uploaded, failed, results, saved>>
discovery == <<existing, checked, pendingStat>>

\* the mutant of cleanNeedsConfirm that never asks
cleanNeedsConfirm_Never == FALSE

\* upload(), line 331: if (!FORCE_MODE), the clean prompt
cleanNeedsConfirm == ~mode.force

\* main, lines 502-505: the answer to 'Connect and check server?'
AnswerConnect(answer) ==
    /\ pc = "askConnect"
    /\ prompts' = [prompts EXCEPT !.connect = Reply(answer)]
    /\ IF confirm(answer)
       THEN pc' = "connecting" /\ exitCode' = exitCode
       ELSE Exit(0)
    /\ UNCHANGED <<fixedInRun, listings, tallies, discovery, cacheFile,
                   remote, stack, op, idx, faults, opLog, untouched,
                   overwritten>>

\* conn.on('ready') and the conn.sftp callback, to its first await
ConnReady ==
    /\ pc = "connecting"
    /\ IF mode.clean
       THEN /\ UNCHANGED discovery
            /\ IF cleanNeedsConfirm
               THEN /\ prompts' = [prompts EXCEPT !.clean = "asked"]
                    /\ pc' = "askClean"
                    /\ UNCHANGED <<stack, op, idx, opLog>>
               ELSE /\ prompts' = prompts
                    /\ cleanRemoteDirectory(opLog)
       ELSE /\ stack' = stack
            /\ discoverExisting(opLog)
    /\ UNCHANGED <<fixedInRun, listings, tallies, cacheFile, remote,
                   exitCode, faults, untouched, overwritten>>

\* conn.sftp's callback with err: reject(err), line 327, caught by main
SftpError ==
    /\ pc = "connecting"
    /\ mainCatch
    /\ UNCHANGED <<fixedInRun, listings, tallies, discovery, cacheFile,
                   remote, stack, op, idx, faults, prompts, opLog, untouched,
                   overwritten>>

\* conn.on('error', reject), line 408: the connection fails while upload()
\* is pending, and main catches the rejection
ConnError ==
    /\ pc \in {"connecting", "askClean", "clean", "discover", "askOverwrite",
               "upload"}
    /\ mainCatch
    /\ UNCHANGED <<fixedInRun, listings, tallies, discovery, cacheFile,
                   remote, stack, op, idx, faults, prompts, opLog, untouched,
                   overwritten>>

\* upload(), lines 335-344: the answer to the clean prompt
AnswerClean(answer) ==
    /\ pc = "askClean"
    /\ prompts' = [prompts EXCEPT !.clean = Reply(answer)]
    /\ IF confirm(answer)
       THEN cleanRemoteDirectory(opLog) /\ exitCode' = exitCode
       ELSE Exit(0) /\ UNCHANGED <<stack, op, idx, opLog>>
    /\ UNCHANGED <<fixedInRun, listings, tallies, discovery, cacheFile,
                   remote, faults, untouched, overwritten>>

\* what sftp.readdir may answer: by the state of the tree, or (while the
\* run's budget lasts) an error whatever the tree, or "no such file" for a
\* nested directory that another party removed since it was listed
ReaddirAnswers ==
    {"tree"} \cup (IF faults < MaxFaults THEN {"error", "gone"} ELSE {})

Subtree(d) == {p \in RPaths : p = d \/ IsPrefix(d, p)}

\* sftp.readdir's callback arguments: a list, err.code 2, or another error
readdirOutcome(p, answer) ==
    IF answer = "error" THEN "error"
    ELSE IF answer = "gone" \/ ~Present(p) THEN "notfound"
    ELSE IF remote[p].kind = "file" THEN "error"
    ELSE "list"

\* the mutant of alreadyClean for which no error means "nothing to clean"
alreadyClean_Never(outcome) == FALSE

\* cleanRemoteDirectory, line 296: if (err.code === 2) return resolve()
alreadyClean(outcome) == outcome = "notfound"

\* cleanRemoteDirectory's sftp.readdir callback, lines 293-311
ReaddirDone(answer) ==
    /\ pc = "clean" /\ op.kind = "readdir"
    /\ answer = "gone" => (Len(stack) > 0 /\ remote[op.path].kind = "dir")
    /\ Charge(answer # "tree")
    /\ remote' = IF answer = "gone"
                 THEN [p \in RPaths |->
                          IF p \in Subtree(op.path) THEN None ELSE remote[p]]
                 ELSE remote
    /\ untouched' = IF answer = "gone" THEN untouched \ Subtree(op.path)
                    ELSE untouched
    /\ LET outcome == readdirOutcome(op.path, answer)
       IN /\ listings' = Append(listings, outcome)
          /\ IF outcome = "list"
             THEN cleanLoop(Append(stack, [path |-> op.path,
                                           list |-> readdirList(op.path),
                                           k |-> 1]), opLog)
             ELSE IF alreadyClean(outcome)
             THEN levelResolved(stack, opLog)
             ELSE \* reject(err): the awaiting async callback throws, and
                  \* nobody catches
                  /\ pc' = "unhandled" /\ op' = NoOp
                  /\ UNCHANGED <<stack, idx, opLog, prompts, existing, checked,
                                 pendingStat>>
    /\ UNCHANGED <<fixedInRun, tallies, cacheFile, exitCode, overwritten>>

\* the sftp.unlink callback, line 307
UnlinkDone(fault) ==
    /\ pc = "clean" /\ op.kind = "unlink"
    /\ Charge(fault)
    /\ LET gone == unlinkOk(op.path, fault)
       IN /\ remote' = IF gone THEN [remote EXCEPT ![op.path] = None] ELSE remote
          /\ untouched' = IF gone THEN untouched \ {op.path} ELSE untouched
    /\ cleanLoop(NextItem(stack), opLog)
    /\ UNCHANGED <<fixedInRun, listings, tallies, cacheFile, exitCode,
                   overwritten>>

\* the sftp.rmdir callback, line 305
RmdirDone(fault) ==
    /\ pc = "clean" /\ op.kind = "rmdir"
    /\ Charge(fault)
    /\ LET gone == rmdirOk(op.path, fault)
       IN /\ remote' = IF gone THEN [remote EXCEPT ![op.path] = None] ELSE remote
          /\ untouched' = IF gone THEN untouched \ {op.path} ELSE untouched
    /\ cleanLoop(NextItem(stack), opLog)
    /\ UNCHANGED <<fixedInRun, listings, tallies, cacheFile, exitCode,
                   overwritten>>

\* the mutant of allChecked that resolves at the first response
allChecked_First(n) == n >= 1

\* checkExistingFiles, line 278: checked === files.length
allChecked(n) == n = Len(files)

\* checkExistingFiles' sftp.stat callback for file k, lines 272-281
StatDone(k, fault) ==
    /\ pc = "discover" /\ k \in pendingStat
    /\ Charge(fault)
    /\ LET target == posixJoin(remotePath, files[k].relative)
           found == IF statOk(target, fault)
                    THEN Append(existing, files[k].relative) ELSE existing
       IN /\ existing' = found
          /\ checked' = checked + 1
          /\ pendingStat' = pendingStat \ {k}
          /\ IF allChecked(checked + 1)
             THEN afterDiscover(found, opLog)
             ELSE UNCHANGED <<pc, op, idx, opLog, prompts>>
    /\ UNCHANGED <<fixedInRun, listings, tallies, cacheFile, remote, stack,
                   exitCode, untouched, overwritten>>

\* upload(), lines 368-374: the answer to 'Overwrite these files?'
AnswerOverwrite(answer) ==
    /\ pc = "askOverwrite"
    /\ prompts' = [prompts EXCEPT !.overwrite = Reply(answer)]
    /\ IF confirm(answer)
       THEN uploadFile(1, opLog) /\ exitCode' = exitCode
       ELSE Exit(0) /\ UNCHANGED <<op, idx, opLog>>
    /\ UNCHANGED <<fixedInRun, listings, tallies, discovery, cacheFile,
                   remote, stack, faults, untouched, overwritten>>

\* the mutant of mkdirNext that skips an ancestor after a failure
mkdirNext_SkipOnError(err, done) == IF err THEN done + 2 ELSE done + 1

\* mkdirSftp, line 252: sftp.mkdir(current, () => next(i + 1)), the callback
\* takes no argument; done is the number of parts requested so far
mkdirNext(err, done) == done + 1

\* mkdirSftp's sftp.mkdir callback: next(i + 1), then sftp.fastPut
MkdirDone(fault) ==
    /\ pc = "upload" /\ op.kind = "mkdir"
    /\ Charge(fault)
    /\ remote' = IF mkdirOk(op.path, fault)
                 THEN [remote EXCEPT ![op.path] = Dir] ELSE remote
    /\ LET target == posixJoin(remotePath, files[idx].relative)
           dir == posixDirname(target)
           next == mkdirNext(~mkdirOk(op.path, fault), Len(op.path))
       IN IF next > Len(dir)
          THEN Issue(Request("put", target, idx), opLog)
          ELSE Issue(Request("mkdir", SubSeq(dir, 1, next), idx), opLog)
    /\ UNCHANGED <<fixedInRun, listings, tallies, discovery, cacheFile, pc,
                   stack, idx, exitCode, prompts, untouched, overwritten>>

\* the mutant of nextIndex that gives up the queue at the first failure
nextIndex_StopOnError(err) == IF err THEN Len(files) + 1 ELSE idx + 1

\* the mutant of nextIndex that skips a file
nextIndex_Skip(err) == idx + 2

\* uploadFile, line 400: uploadFile(i + 1), whatever err is
nextIndex(err) == idx + 1

\* the mutant of countTransfer that forgets the failed transfers
countTransfer_DropFailure(err) ==
    [uploaded |-> IF err THEN uploaded ELSE uploaded + 1, failed |-> failed]

\* uploadFile, lines 393-399: failed++ on err, else uploaded++
countTransfer(err) ==
    [uploaded |-> IF err THEN uploaded ELSE uploaded + 1,
     failed |-> IF err THEN failed + 1 ELSE failed]

\* uploadFile's sftp.fastPut callback, lines 392-401
FastPutDone(fault) ==
    /\ pc = "upload" /\ op.kind = "put"
    /\ Charge(fault)
    /\ LET sent == fastPutOk(op.path, fault)
       IN /\ remote' = IF sent
                       THEN [remote EXCEPT ![op.path] = File(localFs[files[idx].local])]
                       ELSE remote
          /\ uploaded' = countTransfer(~sent).uploaded
          /\ failed' = countTransfer(~sent).failed
          /\ results' = Append(results, IF sent THEN "ok" ELSE "fail")
          /\ overwritten' = IF sent /\ op.path \in untouched
                            THEN overwritten \cup {op.path} ELSE overwritten
          /\ untouched' = IF sent THEN untouched \ {op.path} ELSE untouched
    /\ uploadFile(nextIndex(~fastPutOk(op.path, fault)), opLog)
    /\ UNCHANGED <<fixedInRun, listings, discovery, cacheFile, stack,
                   exitCode, prompts, saved>>

\* saveDeployCache(cache)
saveDeployCache(cache) == cacheFile' = [kind |-> "json", map |-> cache]

\* the mutant of shouldSave that forgets the failed transfers
shouldSave_IgnoreFailed == mode.incr /\ newHashes.set

\* main, line 516: INCREMENTAL_MODE && newHashes && result.failed === 0
shouldSave == mode.incr /\ newHashes.set /\ failed = 0

\* main, lines 510-519: upload() returned
MainResult ==
    /\ pc = "resolved"
    /\ IF shouldSave
       THEN saveDeployCache(newHashes.map) /\ saved' = TRUE
       ELSE UNCHANGED <<cacheFile, saved>>
    /\ Exit(0)
    /\ UNCHANGED <<fixedInRun, listings, discovery, remote, stack, op, idx,
                   uploaded, failed, results, faults, prompts, opLog,
                   untouched, overwritten>>

\* what the event loop may run next while a deploy is under way
Callbacks ==
    \/ \E answer \in Answers : AnswerConnect(answer)
    \/ ConnReady
    \/ SftpError
    \/ ConnError
    \/ \E answer \in Answers : AnswerClean(answer)
    \/ \E answer \in ReaddirAnswers : ReaddirDone(answer)
    \/ \E fault \in Faults : UnlinkDone(fault)
    \/ \E fault \in Faults : RmdirDone(fault)
    \/ \E k \in pendingStat, fault \in Faults : StatDone(k, fault)
    \/ \E answer \in Answers : AnswerOverwrite(answer)
    \/ \E fault \in Faults : MkdirDone(fault)
    \/ \E fault \in Faults : FastPutDone(fault)
    \/ MainResult

Next ==
    \/ \E args \in Commands : Run(args)
    \/ Callbacks

Spec == Init /\ [][Next]_vars

\* the same with every remote request answered, every prompt answered and
\* every callback that is due run: the event loop does not stop while a
\* request or a prompt is outstanding
FairSpec == Init /\ [][Next]_vars /\ WF_vars(Callbacks)

(***************************************************************************)
(* The command line: one project, built, with objects of an earlier deploy  *)
(* on the server or none, and every spelling of the flags that the code or  *)
(* its documentation knows.                                                 *)
(***************************************************************************)
Flags == {"--unattended", "--overwrite", "--incremental", "--clean"}

FlagInit ==
    /\ distExists = TRUE
    /\ localFs = LocalTree({<<"dist", "a">>, <<"s", "b">>})
    /\ config \in [localPath : {<<"dist">>}, exclude : {<<>>},
                    status : ConfigStatuses]
    /\ cacheFile = [kind |-> "absent", map |-> EmptyMap]
    /\ remote \in {RemoteTree({}, {}),
                    RemoteTree({<<"www", "a">>, <<"www", "s", "b">>},
                               {<<"www">>, <<"www", "s">>})}
    /\ NoRunYet

FlagNext ==
    \/ \E args \in SUBSET Flags : Run(args)
    \/ Callbacks

FlagSpec == FlagInit /\ [][FlagNext]_vars

(***************************************************************************)
(* The planning of a run on its own: any configured build folder (dist or   *)
(* the working directory itself), any exclude list, a cache file left by an *)
(* earlier run or none; main() collects the files of a full deploy.         *)
(***************************************************************************)
CollectInit ==
    /\ distExists = TRUE
    /\ localFs \in MappedTrees
    /\ config \in [localPath : {<<"dist">>, <<>>}, exclude : ExcludeLists,
                    status : {"ok"}]
    /\ cacheFile \in {[kind |-> "absent", map |-> EmptyMap],
                      [kind |-> "json", map |-> <<"a">> :> "h1"]}
    /\ remote = RemoteTree({}, {<<"www">>})
    /\ NoRunYet

CollectNext == \E args \in SUBSET {"--unattended", "--clean"} : Run(args)

CollectSpec == CollectInit /\ [][CollectNext]_vars

(***************************************************************************)
(* Unattended incremental deploys with a developer at work: the first run   *)
(* may find any cache file, and between two runs local files are edited.    *)
(***************************************************************************)
\* a path that an earlier deploy recorded and that is no longer collected
StalePath == <<"old">>

InitialCaches ==
    { [kind |-> "absent", map |-> EmptyMap],
      [kind |-> "garbage", map |-> EmptyMap],
      [kind |-> "null", map |-> EmptyMap],
      [kind |-> "scalar", map |-> EmptyMap],
      [kind |-> "json", map |-> EmptyMap],
      [kind |-> "json", map |-> <<"a">> :> "h1"],
      [kind |-> "json", map |-> <<"a">> :> "h2" @@ StalePath :> "h1"],
      [kind |-> "json", map |-> <<"a">> :> "h1" @@ <<"s", "b">> :> "h2"] }

CacheInit ==
    /\ distExists = TRUE
    /\ localFs \in LocalTrees
    /\ config = [localPath |-> <<"dist">>, exclude |-> <<>>, status |-> "ok"]
    /\ cacheFile \in InitialCaches
    /\ remote = RemoteTree({}, {<<"www">>})
    /\ NoRunYet

\* a local file gets another content while no deploy is running
EditLocal(p) ==
    /\ pc = "exited"
    /\ localFs[p] # NoFile /\ p \notin edits.pending
    /\ \E c \in Contents \ {localFs[p]} : localFs' = [localFs EXCEPT ![p] = c]
    /\ edits' = [edits EXCEPT !.pending = @ \cup {p}]
    /\ UNCHANGED <<distExists, config, cacheFile, remote, process, prompts,
                   opLog, results, saved, cacheAtStart, untouched, overwritten,
                   listings, prevSaved>>

CacheNext ==
    \/ Run({"--unattended", "--incremental"})
    \/ ConnReady
    \/ SftpError
    \/ ConnError
    \/ \E k \in pendingStat, fault \in Faults : StatDone(k, fault)
    \/ \E fault \in Faults : MkdirDone(fault)
    \/ \E fault \in Faults : FastPutDone(fault)
    \/ MainResult
    \/ \E p \in LocalFiles : EditLocal(p)

CacheSpec == CacheInit /\ [][CacheNext]_vars

(***************************************************************************)
(* Deploys in any mode with a developer at work: a first deploy to an empty *)
(* remote directory with no cache file, local files edited between runs.    *)
(***************************************************************************)
EditInit ==
    /\ distExists = TRUE
    /\ localFs = LocalTree({<<"dist", "a">>, <<"s", "b">>})
    /\ config = [localPath |-> <<"dist">>, exclude |-> <<>>, status |-> "ok"]
    /\ cacheFile = [kind |-> "absent", map |-> EmptyMap]
    /\ remote = RemoteTree({}, {<<"www">>})
    /\ NoRunYet

EditNext ==
    \/ \E args \in Commands : Run(args)
    \/ Callbacks
    \/ \E p \in LocalFiles : EditLocal(p)

EditSpec == EditInit /\ [][EditNext]_vars

(***************************************************************************)
(* What the properties read off the state.                                  *)
(***************************************************************************)
IsPut(r) == r.kind = "put"
IsStat(r) == r.kind = "stat"
PutLog == SelectSeq(opLog, IsPut)
StatLog == SelectSeq(opLog, IsStat)
UploadKinds == {"mkdir", "put"}
Declined == \E k \in DOMAIN prompts : prompts[k] = "no"
Returned == pc = "resolved" \/ (pc = "exited" /\ exitCode = 0 /\ idx > Len(files))
Outstanding ==
    IF pc \in Stopped THEN 0
    ELSE Cardinality(pendingStat) + (IF op.kind = "none" THEN 0 ELSE 1)
RemoteFiles == {p \in RPaths : remote[p].kind = "file"}
SentPaths == {PutLog[n].path : n \in {m \in 1..Len(results) : results[m] = "ok"}}

(***************************************************************************)
(* C1.  The cache file is written only in an incremental run whose upload   *)
(* returned with failed = 0; in every other run it stays what it was when   *)
(* the run started.                                                         *)
(***************************************************************************)
C1_CacheWrittenOnlyAfterCleanReturn ==
    /\ saved => (mode.incr /\ failed = 0 /\ Returned /\ ~Declined)
    /\ ~saved => cacheFile = cacheAtStart

\* an incremental run without failure has replaced the cache file
C1_Witness == saved /\ cacheFile # cacheAtStart /\ uploaded >= 1

(***************************************************************************)
(* C2.  Per-file fault isolation: every planned file is transferred at most *)
(* once, in turn; when upload() returns every file was attempted exactly    *)
(* once; and the step that counts a failed transfer goes on with the next   *)
(* file (or returns after the last one), it never ends the run.             *)
(***************************************************************************)
C2_Tally ==
    /\ \A n \in 1..Len(PutLog) : PutLog[n].file = n
    /\ Len(PutLog) <= Len(files)
    /\ Len(results) = uploaded + failed
    /\ Len(PutLog) \in {Len(results), Len(results) + 1}
    /\ pc = "resolved" => Len(results) = Len(files)

C2_FailureGoesOn ==
    failed' = failed + 1 =>
        /\ exitCode' = exitCode
        /\ IF Len(results') < Len(files)
           THEN pc' = "upload" /\ op'.file = Len(results') + 1
           ELSE pc' = "resolved"

C2_FaultIsolation == [](C2_Tally) /\ [][C2_FailureGoesOn]_vars

\* upload() returned although the transfer of the first of several files failed
C2_Witness ==
    /\ pc = "resolved" /\ Len(files) >= 2
    /\ results[1] = "fail" /\ Len(results) = Len(files)

(***************************************************************************)
(* C3.  A declined prompt ends the run with exit code 0, with no transfer,  *)
(* no deletion, no directory creation requested and the cache file as it    *)
(* was; in clean mode without unattended mode nothing is listed or deleted  *)
(* before the clean prompt was accepted.                                    *)
(***************************************************************************)
C3_DeclineChangesNothing ==
    /\ Declined =>
          /\ pc = "exited" /\ exitCode = 0
          /\ \A n \in 1..Len(opLog) : opLog[n].kind = "stat"
          /\ results = <<>> /\ uploaded = 0 /\ failed = 0
          /\ ~saved /\ cacheFile = cacheAtStart
          /\ untouched = {p \in RPaths : Present(p)}
    /\ (mode.clean /\ ~mode.force /\ prompts.clean # "yes") =>
          /\ opLog = <<>>
          /\ untouched = {p \in RPaths : Present(p)}

\* the operator refused the clean of a remote root that holds entries
C3_Witness ==
    /\ prompts.clean = "no" /\ Children(remotePath) # {} /\ Len(files) >= 1

(***************************************************************************)
(* C4.  Overwrite guard: without unattended mode, a transfer replaces an    *)
(* object that was on the remote when the run started only after the        *)
(* operator accepted the overwrite prompt.                                  *)
(***************************************************************************)
C4_OverwriteGuard ==
    (~mode.force /\ overwritten # {}) => prompts.overwrite = "yes"

(***************************************************************************)
(* C5.  Idempotence of the cache: the incremental run that follows a run    *)
(* which committed the cache, over the same local files, plans no file.     *)
(***************************************************************************)
C5_SecondRunPlansNothing ==
    (prevSaved /\ mode.incr /\ pc # "idle") => Len(files) = 0

(***************************************************************************)
(* C6.  At most one remote request is outstanding at any point of a run.    *)
(***************************************************************************)
C6_OneRequestOutstanding == Outstanding <= 1

(***************************************************************************)
(* C7.  Upload ordering: the transfers are those of the planned list, in    *)
(* its order; a file's directories are created before its transfer; and no  *)
(* request for a file is issued before the transfers of all files before it *)
(* have completed.                                                          *)
(***************************************************************************)
C7_UploadOrder ==
    /\ \A n \in 1..Len(PutLog) :
          /\ PutLog[n].file = n
          /\ PutLog[n].path = posixJoin(remotePath, files[n].relative)
    /\ \A n \in 1..Len(opLog) :
          opLog[n].kind \in UploadKinds =>
              /\ opLog[n].file \in 1..Len(files)
              /\ Len(results) >= opLog[n].file - 1
              /\ \A m \in 1..(n - 1) :
                    opLog[m].kind \in UploadKinds =>
                        /\ opLog[m].file <= opLog[n].file
                        /\ (opLog[m].file = opLog[n].file => opLog[m].kind = "mkdir")

\* three files were transferred, the second of them failing
C7_Witness ==
    /\ pc = "resolved" /\ Len(files) = 3 /\ Len(PutLog) = 3
    /\ results[2] = "fail"

(***************************************************************************)
(* C8.  The overwrite prompt is issued exactly when the existence checks    *)
(* have all answered, at least one found an object, and unattended mode is  *)
(* off; with nothing found the run goes from the checks to the upload.      *)
(***************************************************************************)
C8_OverwritePromptIff ==
    /\ (prompts.overwrite # "none") <=>
          (Len(existing) > 0 /\ ~mode.force /\ checked = Len(files))
    /\ (pc = "askOverwrite") => (prompts.overwrite = "asked")
    /\ (~mode.clean /\ Len(files) > 0 /\ checked = Len(files)
            /\ Len(existing) = 0 /\ pc \notin Stopped)
          => pc \in {"upload", "resolved"}

\* the prompt is up: some, not all, destinations exist
C8_Witness ==
    /\ pc = "askOverwrite"
    /\ Len(existing) >= 1 /\ Len(existing) < Len(files)

(***************************************************************************)
(* C9.  In unattended mode no prompt is ever issued, and the run goes on to *)
(* transfer every planned file, replacing the objects found on the remote.  *)
(***************************************************************************)
C9_UnattendedNeverPrompts ==
    mode.force =>
        /\ prompts = NoPrompts
        /\ pc \notin {"askConnect", "askClean", "askOverwrite"}
        /\ (checked = Len(files) /\ Len(existing) > 0 /\ pc \notin Stopped)
              => pc \in {"upload", "resolved"}
        /\ Returned => (Len(PutLog) = Len(files) /\ Len(results) = Len(files))

\* unattended, two objects found on the remote, both replaced
C9_Witness ==
    /\ mode.force /\ pc = "resolved"
    /\ Len(existing) = 2 /\ Cardinality(overwritten) = 2

(***************************************************************************)
(* C10.  In clean mode no existence check is issued, `existing` is empty    *)
(* and no overwrite prompt follows; otherwise one existence check per       *)
(* planned file, in the order of the list, is issued (and answered) before  *)
(* the first request of the upload.                                         *)
(***************************************************************************)
C10_DiscoverSkippedAfterClean ==
    /\ mode.clean =>
          /\ StatLog = <<>> /\ pendingStat = {} /\ checked = 0
          /\ existing = <<>>
          /\ prompts.overwrite = "none"
    /\ (~mode.clean /\ \E n \in 1..Len(opLog) : opLog[n].kind \in UploadKinds) =>
          /\ Len(StatLog) = Len(files)
          /\ checked = Len(files) /\ pendingStat = {}
          /\ \A k \in 1..Len(files) :
                opLog[k] = Request("stat", posixJoin(remotePath, files[k].relative), k)

\* a clean run uploaded onto a destination that the clean could not empty
C10_Witness ==
    /\ mode.clean /\ pc = "resolved" /\ Len(files) >= 2
    /\ overwritten # {}

(***************************************************************************)
(* C11.  When upload() has returned in a clean run, the files under the     *)
(* remote root are exactly the files this run transferred, and no file or   *)
(* directory that was there when the run started is left, whatever the      *)
(* outcome of each sftp.unlink and sftp.rmdir.                              *)
(***************************************************************************)
C11_CleanLeavesOnlyUploads ==
    (mode.clean /\ Returned) =>
        /\ RemoteFiles = SentPaths
        /\ untouched \subseteq {remotePath}

(***************************************************************************)
(* C12.  During the clean, an sftp.readdir answered "no such file" (error   *)
(* code 2), for the remote root or for a nested directory, resolves that    *)
(* cleanRemoteDirectory call as if the directory were empty: at the root    *)
(* the run goes on to the upload, below it the parent goes on with the      *)
(* sftp.rmdir of that directory; the answer never ends the run, and a run   *)
(* that dies in the clean does so on another listing error.                 *)
(***************************************************************************)
C12_NotFoundStep ==
    (Len(listings') = Len(listings) + 1
         /\ listings'[Len(listings')] = "notfound") =>
        /\ exitCode' = exitCode
        /\ IF Len(stack) = 0
           THEN pc' \in {"upload", "resolved"} /\ prompts' = prompts
           ELSE /\ pc' = "clean" /\ stack' = stack
                /\ op' = Request("rmdir", op.path, 0)

C12_NoAbort ==
    pc = "unhandled" =>
        (Len(listings) > 0 /\ listings[Len(listings)] = "error")

C12_NotFoundIsClean == [](C12_NoAbort) /\ [][C12_NotFoundStep]_vars

\* upload() returned with a file transferred after a nested directory was
\* found missing during the clean
C12_Witness ==
    /\ pc = "resolved" /\ uploaded >= 1
    /\ Len(listings) >= 2 /\ listings[Len(listings)] = "notfound"

(***************************************************************************)
(* C13.  No entry of the planned list matches a pattern of config.exclude:  *)
(* not by its file name (suffix or exact name), not by its relativePath     *)
(* (substring), and not by a directory above it on its relativePath.        *)
(***************************************************************************)
C13_NoExcludedEntry ==
    \A k \in 1..Len(files) :
        \A n \in 1..Len(files[k].relative) :
            ~excluded(config.exclude, files[k].relative[n],
                      SubSeq(files[k].relative, 1, n))

(***************************************************************************)
(* What the cache properties read off the state of an incremental run whose *)
(* local files have not been edited since it began.                         *)
(***************************************************************************)
Planned == mode.incr /\ pc # "idle" /\ edits.pending = {}
Collected == collectAll
OldCache ==
    IF cacheAtStart.kind = "json" THEN cacheAtStart.map ELSE EmptyMap
HashDiffers(f) ==
    \/ f.relative \notin DOMAIN OldCache
    \/ OldCache[f.relative] # computeFileHash(f.local)
HashMatches(f) == ~HashDiffers(f)

(***************************************************************************)
(* C14.  filterChangedFiles partitions its input: `changed` is, in input    *)
(* order, the entries whose relativePath the cache lacks or records with    *)
(* another hash; `unchanged` counts the others, so that the two add up to   *)
(* the input; newHashes has exactly the input's relativePaths and gives     *)
(* every entry its current hash; and the cache file is as it was.           *)
(***************************************************************************)
C14_Partition ==
    (Planned /\ cacheAtStart.kind \in {"absent", "json"}) =>
        LET result == filterChangedFiles(Collected, [kind |-> "json", map |-> OldCache])
        IN /\ files = SelectSeq(Collected, HashDiffers)
           /\ result.unchanged = Len(SelectSeq(Collected, HashMatches))
           /\ Len(files) + result.unchanged = Len(Collected)
           /\ newHashes.set
           /\ DOMAIN newHashes.map =
                  {Collected[k].relative : k \in 1..Len(Collected)}
           /\ \A k \in 1..Len(Collected) :
                  newHashes.map[Collected[k].relative]
                      = computeFileHash(Collected[k].local)
           /\ pc \in {"askConnect", "connecting"} => cacheFile = cacheAtStart

(***************************************************************************)
(* C15.  The cache file an incremental run has written holds exactly the    *)
(* relativePaths of the collected files, changed or not, each with the      *)
(* current hash of its file, and nothing of the old cache beside them.      *)
(***************************************************************************)
C15_CacheReplacedWholesale ==
    (Planned /\ saved) =>
        /\ cacheFile.kind = "json"
        /\ cacheFile.map = newHashes.map
        /\ DOMAIN cacheFile.map =
               {Collected[k].relative : k \in 1..Len(Collected)}
        /\ \A k \in 1..Len(Collected) :
               cacheFile.map[Collected[k].relative]
                   = computeFileHash(Collected[k].local)

(***************************************************************************)
(* C16.  After a run that committed the cache, the edit of exactly one      *)
(* local file makes the next incremental run plan that file and no other.   *)
(***************************************************************************)
C16_OneEditOneChange ==
    (Planned /\ prevSaved /\ Cardinality(edits.before) = 1) =>
        /\ Len(files) = 1
        /\ files[1].local \in edits.before

(***************************************************************************)
(* C17.  Whatever the cache file holds that is not a mapping (no file, no   *)
(* JSON, a JSON value that is not an object), the incremental run is not    *)
(* aborted by it and plans every collected file.                            *)
(***************************************************************************)
C17_BadCacheIsEmptyCache ==
    (Planned /\ cacheAtStart.kind \in {"absent", "garbage", "null", "scalar"}) =>
        /\ files = Collected
        /\ ~(pc = "unhandled" /\ opLog = <<>>)

(***************************************************************************)
(* C18.  The cache file is no entry of the planned list, whatever build     *)
(* folder and extra folders are configured, so it is never transferred.     *)
(***************************************************************************)
C18_CacheFileNotPlanned ==
    \A k \in 1..Len(files) : files[k].local # CACHE_FILE

(***************************************************************************)
(* C19.  No two entries of the planned list have the same relativePath,     *)
(* and the candidate cache of an incremental run has one entry for every    *)
(* collected file.                                                          *)
(***************************************************************************)
C19_UniqueRelativePath ==
    /\ \A m, n \in 1..Len(files) :
           files[m].relative = files[n].relative => m = n
    /\ (Planned /\ newHashes.set) =>
           Cardinality(DOMAIN newHashes.map) = Len(Collected)

(***************************************************************************)
(* C20.  Fatal errors.  With an invalid sftp.config.json, a missing         *)
(* credential, an invalid extraFolders item or no build folder, the run     *)
(* ends with exit code 1 and has opened no connection, asked nothing and    *)
(* issued no remote request.  A failure of the connection before the        *)
(* session is ready ends the run with exit code 1 and no transfer counted;  *)
(* and no run that ends with exit code 1 has touched the cache file.        *)
(***************************************************************************)
C20_FatalBeforeConnect ==
    (pc # "idle" /\ (~configOk \/ ~localPathExists \/ ~extraFoldersOk)) =>
        /\ pc = "exited" /\ exitCode = 1
        /\ opLog = <<>> /\ listings = <<>> /\ prompts = NoPrompts
        /\ results = <<>> /\ uploaded = 0 /\ failed = 0
        /\ untouched = {p \in RPaths : Present(p)}

C20_ExitOneKeepsCache ==
    (pc = "exited" /\ exitCode = 1) => (~saved /\ cacheFile = cacheAtStart)

C20_ConnectionError ==
    (pc = "connecting" /\ pc' = "exited") =>
        /\ exitCode' = 1
        /\ opLog' = <<>> /\ results' = <<>> /\ uploaded' = 0 /\ failed' = 0
        /\ cacheFile' = cacheFile /\ remote' = remote

C20_FatalErrors ==
    /\ [](C20_FatalBeforeConnect /\ C20_ExitOneKeepsCache)
    /\ [][C20_ConnectionError]_vars

\* the operator agreed to connect, the connection failed, and a cache file
\* written by the run before is still there
C20_Witness ==
    /\ pc = "exited" /\ exitCode = 1
    /\ prompts.connect = "yes" /\ opLog = <<>> /\ Len(files) >= 1
    /\ cacheFile.kind = "json"

(***************************************************************************)
(* C21.  The tally of upload(): within a run `uploaded` and `failed` never  *)
(* decrease; the completion of a transfer adds one to exactly one of them   *)
(* and no other step changes them, so that their sum is the number of       *)
(* completed transfers; and upload() returns only after the last planned    *)
(* file, when the sum is the length of the planned list.                    *)
(***************************************************************************)
TransferCompletes ==
    /\ pc = "upload" /\ op.kind = "put"
    /\ pc' \in {"upload", "resolved"} /\ idx' # idx

C21_TallyStep ==
    runNo' = runNo =>
        /\ uploaded' >= uploaded /\ failed' >= failed
        /\ IF TransferCompletes
           THEN \/ uploaded' = uploaded + 1 /\ failed' = failed
                \/ uploaded' = uploaded /\ failed' = failed + 1
           ELSE uploaded' = uploaded /\ failed' = failed
        /\ (pc' = "resolved" /\ pc # "resolved") =>
               /\ uploaded' + failed' = Len(files)
               /\ Len(files) > 0 => (TransferCompletes /\ op.file = Len(files))

C21_TallyCounts ==
    /\ uploaded + failed = Len(results)
    /\ uploaded = Len(SelectSeq(results, LAMBDA r : r = "ok"))
    /\ Returned => uploaded + failed = Len(files)

C21_TallyMonotone == [](C21_TallyCounts) /\ [][C21_TallyStep]_vars

\* upload() returned with transfers of both outcomes counted
C21_Witness ==
    /\ pc = "resolved" /\ uploaded >= 1 /\ failed >= 1
    /\ uploaded + failed = Len(files)

(***************************************************************************)
(* C22.  A run started with `--overwrite` is in unattended mode: it asks    *)
(* for no confirmation (connect, clean, overwrite) and never waits for an   *)
(* answer.                                                                  *)
(***************************************************************************)
C22_OverwriteIsUnattended ==
    "--overwrite" \in argv =>
        /\ mode.force
        /\ prompts = NoPrompts
        /\ pc \notin {"askConnect", "askClean", "askOverwrite"}

(***************************************************************************)
(* C23.  The cache represents what is deployed: once a run has ended with   *)
(* exit code 0, having met no failure of the server or the connection,      *)
(* every relativePath of the cache file names a file of the remote          *)
(* directory whose content hashes to the hash the cache records for it.     *)
(***************************************************************************)
Deployed(relative, hash) ==
    LET p == posixJoin(remotePath, relative) IN
    /\ p \in RPaths
    /\ remote[p].kind = "file"
    /\ remote[p].data \in DOMAIN Digest
    /\ Digest[remote[p].data] = hash

C23_CacheIsDeployed ==
    (pc = "exited" /\ exitCode = 0 /\ faults = 0 /\ cacheFile.kind = "json") =>
        \A relative \in DOMAIN cacheFile.map :
            Deployed(relative, cacheFile.map[relative])

(***************************************************************************)
(* C24.  checkExistingFiles under any interleaving of the responses: while  *)
(* checks are outstanding nothing of the upload is requested; every         *)
(* response is counted once and adds its relativePath to the result         *)
(* exactly when the check succeeded; the result is delivered once, by the   *)
(* response that leaves no check outstanding, and is then the relativePaths *)
(* (with their repetitions) whose object the server has; an empty list      *)
(* issues no check and delivers the empty result at once.                   *)
(***************************************************************************)
Occurrences(seq, x) == Len(SelectSeq(seq, LAMBDA y : y = x))
OnServer(relative) ==
    Cardinality({k \in 1..Len(files) :
        /\ files[k].relative = relative
        /\ Present(posixJoin(remotePath, relative))})
Relatives == {files[k].relative : k \in 1..Len(files)}

C24_WhileChecking ==
    /\ pc = "discover" =>
          /\ Len(files) > 0 /\ pendingStat # {}
          /\ checked + Cardinality(pendingStat) = Len(files)
          /\ \A n \in 1..Len(opLog) : opLog[n].kind = "stat"
          /\ op = NoOp
    /\ Len(StatLog) \in {0, Len(files)}
    /\ (pc \in {"askOverwrite", "upload", "resolved"} /\ ~mode.clean) =>
          /\ pendingStat = {} /\ checked = Len(files)
          /\ Len(StatLog) = Len(files)
    /\ pc = "askOverwrite" =>
          \A relative \in Relatives :
             /\ Occurrences(existing, relative) <= OnServer(relative)
             /\ faults = 0 =>
                    Occurrences(existing, relative) = OnServer(relative)
    /\ \A n \in 1..Len(existing) : existing[n] \in Relatives

C24_Response ==
    /\ (pc = "discover" /\ pendingStat' # pendingStat) =>
          \E k \in pendingStat :
             /\ pendingStat' = pendingStat \ {k}
             /\ checked' = checked + 1
             /\ existing' =
                   IF /\ faults' = faults
                      /\ Present(posixJoin(remotePath, files[k].relative))
                   THEN Append(existing, files[k].relative) ELSE existing
             /\ remote' = remote
    /\ (pc = "discover" /\ pc' \notin {"discover", "exited"}) =>
          /\ pendingStat' = {} /\ checked' = Len(files)
          /\ pc' \in {"askOverwrite", "upload"}
    /\ (pc # "discover" /\ pc' = "discover") => pc = "connecting"
    /\ (pc \notin {"discover", "connecting"} /\ runNo' = runNo) =>
          /\ existing' = existing /\ checked' = checked

C24_CheckExistingFiles == [](C24_WhileChecking) /\ [][C24_Response]_vars

\* two checks answered in the reverse of the order of their requests, both
\* successful, and the result delivered
C24_Witness ==
    /\ pc = "askOverwrite" /\ Len(files) = 2 /\ Len(existing) = 2
    /\ files[1].relative # files[2].relative
    /\ existing[1] = files[2].relative /\ existing[2] = files[1].relative

(***************************************************************************)
(* C25.  The clean is depth-first.  Of the entries a listing returned, the  *)
(* ones before the current one have had their deletion requested and        *)
(* answered (sftp.unlink for a file, sftp.rmdir for a directory), the ones  *)
(* after it have had none; sftp.rmdir of a directory is requested only by   *)
(* the step that ends the clean of that directory, after the deletion of    *)
(* the last entry listed in it was answered, and with no failure the        *)
(* directory is then empty; the remote root is never removed; and nothing   *)
(* of the upload is requested before the clean has finished.                *)
(***************************************************************************)
CleanKinds == {"readdir", "unlink", "rmdir"}
Requested(r) == Cardinality({n \in 1..Len(opLog) : opLog[n] = r})
Deletion(e) ==
    Request(IF e.isDirectory THEN "rmdir" ELSE "unlink", e.path, 0)
WrongDeletion(e) ==
    Request(IF e.isDirectory THEN "unlink" ELSE "rmdir", e.path, 0)

FrameInOrder(d) ==
    LET f == stack[d]
    IN /\ f.k \in 1..Len(f.list)
       /\ \A j \in 1..Len(f.list) :
             LET e == f.list[j]
             IN /\ Requested(WrongDeletion(e)) = 0
                /\ j < f.k => (Requested(Deletion(e)) = 1 /\ op # Deletion(e))
                /\ j > f.k =>
                       /\ Requested(Deletion(e)) = 0
                       /\ Requested(Request("readdir", e.path, 0)) = 0
                /\ j = f.k =>
                       IF e.isDirectory
                       THEN /\ Requested(Request("readdir", e.path, 0)) = 1
                            /\ Requested(Deletion(e)) = 1 =>
                                   (d = Len(stack) /\ op = Deletion(e))
                            /\ d < Len(stack) => stack[d + 1].path = e.path
                       ELSE /\ d = Len(stack)
                            /\ Requested(Deletion(e)) = 1 /\ op = Deletion(e)

C25_CleanState ==
    /\ pc = "clean" =>
          /\ \A d \in 1..Len(stack) : FrameInOrder(d)
          /\ \A n \in 1..Len(opLog) : opLog[n].kind \in CleanKinds
          /\ op.kind \in CleanKinds
    /\ \A n \in 1..Len(opLog) :
          /\ opLog[n].kind \in {"unlink", "rmdir"} => opLog[n].path # remotePath
          /\ opLog[n].kind \in CleanKinds =>
                /\ mode.clean
                /\ \A m \in 1..n : opLog[m].kind \in CleanKinds

RmdirIssued ==
    /\ Len(opLog') = Len(opLog) + 1
    /\ opLog'[Len(opLog')].kind = "rmdir"

C25_RmdirStep ==
    RmdirIssued =>
        LET dir == opLog'[Len(opLog')].path
        IN /\ pc = "clean" /\ pc' = "clean" /\ dir # remotePath
           /\ Requested(Request("readdir", dir, 0)) = 1
           /\ \/ op = Request("readdir", dir, 0)
              \/ /\ Len(stack) > 0
                 /\ LET top == stack[Len(stack)]
                    IN /\ top.path = dir /\ top.k = Len(top.list)
                       /\ op = Deletion(top.list[top.k])
           /\ faults' = 0 => {p \in RPaths : posixDirname(p) = dir
                                              /\ remote'[p].kind # "none"} = {}

C25_DepthFirst == [](C25_CleanState) /\ [][C25_RmdirStep]_vars

\* a directory with a file in it was emptied and then removed, below a root
\* that stays
C25_Witness ==
    /\ pc = "clean" /\ op = Request("rmdir", <<"www", "s">>, 0)
    /\ Requested(Request("unlink", <<"www", "s", "b">>, 0)) = 1
    /\ remote[<<"www", "s", "b">>].kind = "none"

(***************************************************************************)
(* C26.  Directory creation before a transfer tolerates failure: every      *)
(* sftp.fastPut in the log comes right after one sftp.mkdir for each        *)
(* ancestor of its target, from the shallowest to the deepest, issued for   *)
(* the same file; the answer to a mkdir, success or failure, changes        *)
(* neither `uploaded` nor `failed` and leads to the next mkdir or to the    *)
(* transfer of the same file.                                               *)
(***************************************************************************)
C26_AncestorsFirst ==
    \A n \in 1..Len(opLog) :
        /\ opLog[n].kind = "put" =>
              LET dir == posixDirname(opLog[n].path)
              IN /\ n > Len(dir)
                 /\ \A j \in 1..Len(dir) :
                       opLog[n - Len(dir) + j - 1] =
                           Request("mkdir", SubSeq(dir, 1, j), opLog[n].file)
        /\ opLog[n].kind = "mkdir" =>
              /\ opLog[n].file \in 1..Len(files)
              /\ IsPrefix(opLog[n].path,
                          posixJoin(remotePath, files[opLog[n].file].relative))
              /\ Len(opLog[n].path) <= Len(remotePath)
                                         + Len(files[opLog[n].file].relative) - 1

MkdirAnswered ==
    /\ pc = "upload" /\ op.kind = "mkdir"
    /\ pc' # "exited" /\ op' # op

C26_MkdirStep ==
    MkdirAnswered =>
        LET target == posixJoin(remotePath, files[idx].relative)
        IN /\ uploaded' = uploaded /\ failed' = failed /\ results' = results
           /\ pc' = "upload" /\ idx' = idx
           /\ op' = IF Len(op.path) + 1 = Len(target)
                    THEN Request("put", target, idx)
                    ELSE Request("mkdir", SubSeq(target, 1, Len(op.path) + 1), idx)
           /\ opLog' = Append(opLog, op')

C26_MkdirFailuresTolerated == [](C26_AncestorsFirst) /\ [][C26_MkdirStep]_vars

\* both mkdir requests of a transfer failed (the root is not there, so
\* neither it nor the directory below it was created), the transfer is
\* requested all the same and the tally has not moved
C26_Witness ==
    /\ pc = "upload" /\ op.kind = "put" /\ Len(op.path) = 3
    /\ ~Present(remotePath) /\ ~Present(posixDirname(op.path))
    /\ uploaded = 0 /\ failed = 0

(***************************************************************************)
(* C27.  With every remote request and every prompt answered, a run that    *)
(* has started to connect ends with upload() settled: resolved and handled  *)
(* by main, or rejected and caught by main ('Deploy failed', exit code 1),  *)
(* or cancelled by the operator (exit code 0).                              *)
(***************************************************************************)
Settled == pc \in {"resolved", "exited"}

C27_ConnectedRunSettles == (pc = "connecting") ~> Settled

(***************************************************************************)
(* C28.  An incremental run whose changed set is empty exits with code 0    *)
(* at once, in clean mode too: no prompt, no connection, no remote request, *)
(* nothing deleted or replaced on the server, and the cache file as it was. *)
(***************************************************************************)
NothingChanged == runNo > 0 /\ mode.incr /\ newHashes.set /\ Len(files) = 0

C28_NoChangesNoEffect ==
    NothingChanged =>
        /\ pc = "exited" /\ exitCode = 0
        /\ prompts = NoPrompts
        /\ opLog = <<>> /\ listings = <<>> /\ op = NoOp /\ pendingStat = {}
        /\ untouched = {p \in RPaths : Present(p)} /\ overwritten = {}
        /\ ~saved /\ cacheFile = cacheAtStart

\* the second run, incremental and clean, finds every collected file in the
\* cache the first run wrote, and leaves the files on the server alone
C28_Witness ==
    /\ NothingChanged /\ mode.clean /\ prevSaved
    /\ DOMAIN newHashes.map # {} /\ cacheFile.kind = "json"
    /\ RemoteFiles # {}

====
